---- MODULE Spec2Model ----
(***************************************************************************)
(* Model of src/src/main.rs: the boot sequence of the esp32 micro-rdk      *)
(* server.  main() is one straight-line function; pc is the statement it   *)
(* is about to execute.  The credential store (NVSStorage), the component  *)
(* registry, the certificate builder, the executor and the server are      *)
(* library objects; the model keeps of each only what main() observes:     *)
(* the value returned and whether a Result was Ok or Err.                  *)
(*                                                                         *)
(* The five option_env! constants and the generated module list are fixed  *)
(* at build time; they are chosen in Init and never change.  The store     *)
(* survives a restart of the process, everything else does not; of the     *)
(* boots before the current one the model remembers, per category, only    *)
(* whether a store-write was called and whether one succeeded.             *)
(***************************************************************************)
EXTENDS Integers, Sequences, FiniteSets, TLC

\* ---------------------------------------------------------------- bounds
MaxModules == 2

\* --------------------------------------------------------- Option<&str>
None == [some |-> FALSE, val |-> ""]
Some(s) == [some |-> TRUE, val |-> s]
is_some(o) == o.some
\* Option::unwrap: the value of Some, a panic on None.
unwrap(o) == IF is_some(o) THEN [panic |-> FALSE, val |-> o.val]
             ELSE [panic |-> TRUE, val |-> ""]

\* main.rs:1-4  values an option_env! constant can have: unset, set to "",
\* set to text.
EnvValues(s) == {None, Some(""), Some(s)}
\* The app address additionally has a value that is set but is no URI.
AddressValues == {None, Some(""), Some("not a uri"), Some("https://app.viam.com:443")}

\* ------------------------------------------------------ credential store
NoNetwork == [present |-> FALSE, ssid |-> "", password |-> ""]
NoRobot == [present |-> FALSE, id |-> "", secret |-> "", address |-> ""]
\* Records a previous provisioning may have left in the store.
StoredNetwork == [present |-> TRUE, ssid |-> "home", password |-> "stored-pw"]
StoredRobot == [present |-> TRUE, id |-> "stored-id", secret |-> "stored-secret",
                address |-> "https://stored.viam.com:443"]

VARIABLES
    SSID, PASS, ROBOT_ID, ROBOT_SECRET, ROBOT_APP_ADDRESS,
    modules,        \* the generated module list: modules[i] = hook i returns Ok
    storage,        \* the persistent store: [network, robot]
    bootStorage,    \* history: the store as it was when this boot started
    earlier,        \* history: the store-write calls of the boots before this one
    pc,             \* statement of main() about to execute
    abortAt,        \* the statement that panicked, "" while not aborted
    trace,          \* history: the calls main() has made in this boot
    netCalls,       \* history: the store_default_network calls of this boot
    robotCalls,     \* history: the store_robot_credentials calls of this boot
    newCalls,       \* history: the RobotCredentials::new calls of this boot
    info,           \* ProvisioningInfo
    registry,       \* ComponentRegistry: indices of the registered modules
    regResult,      \* result of register_modules: "", "Ok" or "Err"
    webrtc_certs,   \* the generated certificate (0 = none yet)
    dtls,           \* certificate referenced by the DTLS builder
    webrtc_config,  \* certificate referenced by the WebRtcConfiguration
    exec,           \* tasks spawned on the executor main() owns
    builder,        \* ViamServerBuilder
    server,         \* the built server
    supPc,          \* supervisor task: "unspawned", "ready", "sleeping"
    lastRan,        \* task the executor polled last: "", "server", "supervisor"
    report,         \* percentages of the supervisor's last sample
    sampled,        \* history: the heap counters the last sample read
    failed          \* history: the calls that returned Err in this boot

buildVars == <<SSID, PASS, ROBOT_ID, ROBOT_SECRET, ROBOT_APP_ADDRESS, modules>>
storeVars == <<storage, netCalls, robotCalls, newCalls>>
bootVars == <<info, registry, regResult, webrtc_certs, dtls, webrtc_config,
              exec, builder, server>>
taskVars == <<supPc, lastRan, report, sampled>>
vars == <<buildVars, storeVars, bootStorage, earlier, pc, abortAt, trace,
          failed, bootVars, taskVars>>

\* ------------------------------------------------------------- helpers
\* The module lists of n modules: one outcome of register_models per module.
BoolSeqs(n) == [1..n -> BOOLEAN]

Occurs(e, s) == \E i \in 1..Len(s) : s[i] = e

\* What a later boot remembers of the write calls made so far for one
\* category: "none", "failed" (called, never Ok) or "ok" (one returned Ok).
CallsSoFar(before, calls) ==
    IF before = "ok" \/ (\E i \in 1..Len(calls) : calls[i].ok) THEN "ok"
    ELSE IF before = "failed" \/ calls # <<>> THEN "failed"
    ELSE "none"

\* Mutant: the existence check always reports "no record".
has_default_network_NeverFound(s) == FALSE

\* main.rs:63  storage.has_default_network()
has_default_network(s) == s.network.present

\* main.rs:77  storage.has_robot_credentials()
has_robot_credentials(s) == s.robot.present

\* main.rs:67  SSID.is_some() && PASS.is_some()
NetworkFallbackPresent == is_some(SSID) /\ is_some(PASS)

\* main.rs:82  ROBOT_ID.is_some() && ROBOT_SECRET.is_some() && ROBOT_APP_ADDRESS.is_some()
RobotFallbackPresent ==
    is_some(ROBOT_ID) /\ is_some(ROBOT_SECRET) /\ is_some(ROBOT_APP_ADDRESS)

\* Mutant: the two arguments are passed in the wrong order.
NetworkFallback_Swapped ==
    [panic |-> unwrap(SSID).panic \/ unwrap(PASS).panic,
     ssid |-> unwrap(PASS).val, password |-> unwrap(SSID).val]

\* main.rs:72  the arguments of store_default_network; evaluating them
\* panics, before the call, when either constant is None.
NetworkFallback ==
    [panic |-> unwrap(SSID).panic \/ unwrap(PASS).panic,
     ssid |-> unwrap(SSID).val, password |-> unwrap(PASS).val]

\* main.rs:87-89  the arguments of RobotCredentials::new; evaluating them
\* panics, before the call, when one of the constants is None.
RobotFallback ==
    [panic |-> \/ unwrap(ROBOT_ID).panic
               \/ unwrap(ROBOT_SECRET).panic
               \/ unwrap(ROBOT_APP_ADDRESS).panic,
     id |-> unwrap(ROBOT_ID).val, secret |-> unwrap(ROBOT_SECRET).val,
     address |-> unwrap(ROBOT_APP_ADDRESS).val]

\* The app address must parse as a URI: it needs a scheme and an authority.
AddressParses(a) == a \in {"https://app.viam.com:443", "https://stored.viam.com:443"}

\* main.rs:86-91  RobotCredentials::new(id, secret, address): Err when the
\* address does not parse, otherwise the credential holding the three values.
RobotCredentials_new(id, secret, address) ==
    [ok |-> AddressParses(address),
     cred |-> [id |-> id, secret |-> secret, address |-> address]]

\* main.rs:71-73  effect of a successful store_default_network on the store
store_default_network(s, ssid, password) ==
    [s EXCEPT !.network = [present |-> TRUE, ssid |-> ssid, password |-> password]]

\* main.rs:84-94  effect of a successful store_robot_credentials on the store
store_robot_credentials(s, cred) ==
    [s EXCEPT !.robot = [present |-> TRUE, id |-> cred.id, secret |-> cred.secret,
                         address |-> cred.address]]

\* Mutant: the last module of the list is left out.
RECURSIVE register_modules_SkipsLast(_, _, _)
register_modules_SkipsLast(mods, i, reg) ==
    IF i >= Len(mods) THEN [registry |-> reg, result |-> "Ok"]
    ELSE IF mods[i] THEN register_modules_SkipsLast(mods, i + 1, reg \cup {i})
    ELSE [registry |-> reg, result |-> "Err"]

\* main.rs:30-41  the body generate_register_modules! expands to: the hooks
\* run in list order and `?` returns the first Err, skipping the rest.
RECURSIVE register_modules(_, _, _)
register_modules(mods, i, reg) ==
    IF i > Len(mods) THEN [registry |-> reg, result |-> "Ok"]
    ELSE IF mods[i] THEN register_modules(mods, i + 1, reg \cup {i})
    ELSE [registry |-> reg, result |-> "Err"]

\* Mutant: the certificate is generated before the resolver runs.
StepAfter_CertificateFirst(p) ==
    CASE p = "eventfd_register" -> "nvs_open"
      [] p = "nvs_open" -> "certificate"
      [] p = "certificate" -> "resolve_network"
      [] p = "resolve_network" -> "resolve_robot"
      [] p = "resolve_robot" -> "provisioning_info"
      [] p = "provisioning_info" -> "register_modules"
      [] p = "register_modules" -> "spawn"
      [] p = "spawn" -> "builder"
      [] p = "builder" -> "wifi"
      [] p = "wifi" -> "mdns"
      [] p = "mdns" -> "build"
      [] p = "build" -> "run_forever"
      [] p = "run_forever" -> "serving"
      [] OTHER -> p

\* Mutant: the supervisor is spawned after the server has been built.
StepAfter_SpawnAfterBuild(p) ==
    CASE p = "eventfd_register" -> "nvs_open"
      [] p = "nvs_open" -> "resolve_network"
      [] p = "resolve_network" -> "resolve_robot"
      [] p = "resolve_robot" -> "provisioning_info"
      [] p = "provisioning_info" -> "register_modules"
      [] p = "register_modules" -> "certificate"
      [] p = "certificate" -> "builder"
      [] p = "builder" -> "wifi"
      [] p = "wifi" -> "mdns"
      [] p = "mdns" -> "build"
      [] p = "build" -> "spawn"
      [] p = "spawn" -> "run_forever"
      [] p = "run_forever" -> "serving"
      [] OTHER -> p

\* Mutant: the device category is resolved before the network category.
StepAfter_RobotFirst(p) ==
    CASE p = "eventfd_register" -> "nvs_open"
      [] p = "nvs_open" -> "resolve_robot"
      [] p = "resolve_robot" -> "resolve_network"
      [] p = "resolve_network" -> "provisioning_info"
      [] p = "provisioning_info" -> "register_modules"
      [] p = "register_modules" -> "certificate"
      [] p = "certificate" -> "spawn"
      [] p = "spawn" -> "builder"
      [] p = "builder" -> "wifi"
      [] p = "wifi" -> "mdns"
      [] p = "mdns" -> "build"
      [] p = "build" -> "run_forever"
      [] p = "run_forever" -> "serving"
      [] OTHER -> p

\* main.rs:45-165  the order of the statements of main()
StepAfter(p) ==
    CASE p = "eventfd_register" -> "nvs_open"
      [] p = "nvs_open" -> "resolve_network"
      [] p = "resolve_network" -> "resolve_robot"
      [] p = "resolve_robot" -> "provisioning_info"
      [] p = "provisioning_info" -> "register_modules"
      [] p = "register_modules" -> "certificate"
      [] p = "certificate" -> "spawn"
      [] p = "spawn" -> "builder"
      [] p = "builder" -> "wifi"
      [] p = "wifi" -> "mdns"
      [] p = "mdns" -> "build"
      [] p = "build" -> "run_forever"
      [] p = "run_forever" -> "serving"
      [] OTHER -> p

\* Mutant: the server is built on a new, empty executor.
BuildServer_FreshExecutor(b, e) ==
    [built |-> TRUE, storage |-> b.storage, info |-> b.info, cert |-> b.cert,
     registry |-> b.registry, exec |-> {}]

\* main.rs:162  builder.build(connector, exec, mdns): the server owns the
\* builder's parts and the executor it is handed.
BuildServer(b, e) ==
    [built |-> TRUE, storage |-> b.storage, info |-> b.info, cert |-> b.cert,
     registry |-> b.registry, exec |-> e]

NoInfo == [manufacturer |-> "", model |-> ""]
NoBuilder == [made |-> FALSE, storage |-> FALSE, info |-> NoInfo, cert |-> 0,
              registry |-> {}, wifi |-> FALSE]
NoServer == [built |-> FALSE, storage |-> FALSE, info |-> NoInfo, cert |-> 0,
             registry |-> {}, exec |-> {}]
NoReport == [spiram |-> [kind |-> "none", hundredths |-> 0],
             internal |-> [kind |-> "none", hundredths |-> 0]]
NoSample == [spiram |-> <<0, 0>>, internal |-> <<0, 0>>]

\* Heap counters (total, free) the sampling step can read: a board may have
\* no SPIRAM at all, it always has internal RAM.  32 bytes with 1 free is a
\* ratio whose percentage, 3.125, lies exactly between two hundredths.
SpiramCounters == {<<0, 0>>, <<32, 1>>}
InternalCounters == {<<1000, 250>>}

\* An f32 is kept as [m, e] with value m * 2^e: m = 0, or 2^23 <= m < 2^24.
\* Intermediate results are bound as the element of a one-element set, so
\* that each is computed once.
F32Zero == [m |-> 0, e |-> 0]

\* Number of binary digits of n, 0 <= n < 2^31.
BitLen(n) ==
    IF n >= 2^30 THEN 31
    ELSE CHOOSE k \in 0..30 : (k = 0 \/ 2^(k - 1) <= n) /\ n < 2^k

\* n / 2^k rounded to the nearest integer, ties to the even one.
RoundHalfEven(n, k) ==
    IF k = 0 THEN n
    ELSE IF k >= 31 THEN (IF k = 31 /\ n > 2^30 THEN 1 ELSE 0)
    ELSE LET p == 2^k
             q == n \div p
             r == n % p
         IN IF r > p \div 2 \/ (r = p \div 2 /\ q % 2 = 1) THEN q + 1 ELSE q

\* The f32 nearest to n * 2^e (n > 0): 24 significant bits, ties to even.
F32Round(n, e) ==
    LET Packed(bits, r) ==
            IF bits <= 24
            THEN [m |-> n * 2^(24 - bits), e |-> e - (24 - bits)]
            ELSE IF r = 2^24 THEN [m |-> 2^23, e |-> e + (bits - 24) + 1]
            ELSE [m |-> r, e |-> e + (bits - 24)]
    IN CHOOSE x \in {Packed(bits, IF bits <= 24 THEN n
                                   ELSE RoundHalfEven(n, bits - 24)) :
                        bits \in {BitLen(n)}} : TRUE

\* main.rs:135,141  `x as f32` of a usize
F32FromInt(n) == IF n = 0 THEN F32Zero ELSE F32Round(n, 0)

\* One step of long division by b: k more binary digits of the quotient
\* (d.r < b < 2^24 and k <= 7, so the shifted remainder stays below 2^31).
DivStep(d, b, k) ==
    [q |-> d.q * 2^k + (d.r * 2^k) \div b, r |-> (d.r * 2^k) % b]

\* `bits` (23 or 24) more quotient digits of r / b after the leading q.
LongDiv(r, b, bits, q) ==
    CHOOSE d4 \in {DivStep(d3, b, bits - 21) :
                     d3 \in {DivStep(d2, b, 7) :
                              d2 \in {DivStep(d1, b, 7) :
                                       d1 \in {DivStep([q |-> q, r |-> r], b, 7)}}}} : TRUE

\* main.rs:135,141  the f32 quotient a / b of two f32 (b # 0): the exact
\* quotient rounded to 24 significant bits, ties to even.
F32Div(a, b) ==
    IF a.m = 0 THEN F32Zero
    ELSE LET first == a.m >= b.m
             bits == IF first THEN 23 ELSE 24
             e == a.e - b.e - bits
             Rounded(d) ==
                 IF 2 * d.r > b.m \/ (2 * d.r = b.m /\ d.q % 2 = 1)
                 THEN d.q + 1 ELSE d.q
             Packed(q) ==
                 IF q = 2^24 THEN [m |-> 2^23, e |-> e + 1] ELSE [m |-> q, e |-> e]
         IN CHOOSE x \in {Packed(Rounded(d)) :
                             d \in {LongDiv(IF first THEN a.m - b.m ELSE a.m, b.m,
                                            bits, IF first THEN 1 ELSE 0)}} : TRUE

\* main.rs:135,141  the f32 product x * 100.0
F32Mul100(x) == IF x.m = 0 THEN F32Zero ELSE F32Round(x.m * 100, x.e)

\* main.rs:133,139  {:.2} of an f32 below 2^7: the hundredths of the decimal
\* nearest to the binary value, ties to the even digit.
FormatTwoDecimals(v) == IF v.m = 0 THEN 0 ELSE RoundHalfEven(v.m * 100, 0 - v.e)

\* Mutant: the fraction is reported without the factor 100.
Percent_Fraction(free, total) ==
    IF total = 0
    THEN [kind |-> IF free = 0 THEN "NaN" ELSE "inf", hundredths |-> 0]
    ELSE [kind |-> "num",
          hundredths |->
              CHOOSE h \in {FormatTwoDecimals(q) :
                               q \in {F32Div(a, b) : a \in {F32FromInt(free)},
                                                    b \in {F32FromInt(total)}}} : TRUE]

\* main.rs:135,141  ((free as f32) / (total as f32)) * 100.0 printed with
\* {:.2}: 0/0 is NaN and x/0 is inf in f32, neither panics.
Percent(free, total) ==
    IF total = 0
    THEN [kind |-> IF free = 0 THEN "NaN" ELSE "inf", hundredths |-> 0]
    ELSE [kind |-> "num",
          hundredths |->
              CHOOSE h \in {FormatTwoDecimals(p) :
                               p \in {F32Mul100(q) :
                                        q \in {F32Div(a, b) :
                                                 a \in {F32FromInt(free)},
                                                 b \in {F32FromInt(total)}}}} : TRUE]

\* main.rs:131-142  the percentage logged for each pair of counters the
\* sampling step can read.
PercentOf == [c \in SpiramCounters \cup InternalCounters |-> Percent(c[2], c[1])]

\* ------------------------------------------------------------------ Init
FreshBoot ==
    /\ pc = "eventfd_register"
    /\ abortAt = ""
    /\ trace = <<>>
    /\ info = NoInfo
    /\ registry = {}
    /\ regResult = ""
    /\ webrtc_certs = 0
    /\ dtls = 0
    /\ webrtc_config = 0
    /\ exec = {}
    /\ builder = NoBuilder
    /\ server = NoServer
    /\ supPc = "unspawned"
    /\ lastRan = ""
    /\ report = NoReport
    /\ sampled = NoSample
    /\ failed = {}

Init ==
    /\ SSID \in EnvValues("ssid")
    /\ PASS \in EnvValues("pass")
    /\ ROBOT_ID \in EnvValues("id")
    /\ ROBOT_SECRET \in EnvValues("secret")
    /\ ROBOT_APP_ADDRESS \in AddressValues
    /\ modules \in BoolSeqs(MaxModules)
    /\ storage \in [network : {NoNetwork, StoredNetwork}, robot : {NoRobot, StoredRobot}]
    /\ bootStorage = storage
    /\ earlier = [net |-> "none", robot |-> "none"]
    /\ netCalls = <<>>
    /\ robotCalls = <<>>
    /\ newCalls = <<>>
    /\ FreshBoot

\* --------------------------------------------------------------- actions
Abort(step) ==
    /\ pc' = "aborted"
    /\ abortAt' = step

Continue(step) ==
    /\ pc' = StepAfter(step)
    /\ abortAt' = abortAt

\* main.rs:51-56  esp!(esp_vfs_eventfd_register(..)).unwrap()
EventfdRegister ==
    /\ pc = "eventfd_register"
    /\ \E ok \in BOOLEAN :
        /\ failed' = IF ok THEN failed ELSE failed \cup {"eventfd_register"}
        /\ IF ok THEN Continue("eventfd_register") ELSE Abort("eventfd_register")
    /\ trace' = Append(trace, "eventfd_register")
    /\ UNCHANGED <<buildVars, storeVars, bootStorage, earlier, bootVars, taskVars>>

\* main.rs:58  NVSStorage::new("nvs").unwrap()
NvsOpen ==
    /\ pc = "nvs_open"
    /\ \E ok \in BOOLEAN :
        /\ failed' = IF ok THEN failed ELSE failed \cup {"nvs_open"}
        /\ IF ok THEN Continue("nvs_open") ELSE Abort("nvs_open")
    /\ trace' = Append(trace, "nvs_open")
    /\ UNCHANGED <<buildVars, storeVars, bootStorage, earlier, bootVars, taskVars>>

\* Mutant: missing network credentials without a fallback are a fatal error.
ResolveNetwork_RequiresCredentials ==
    /\ pc = "resolve_network"
    /\ IF has_default_network(storage)
       THEN /\ trace' = Append(trace, "has_default_network")
            /\ Continue("resolve_network")
            /\ UNCHANGED <<storage, netCalls, failed>>
       ELSE IF NetworkFallbackPresent /\ NetworkFallback.panic
       THEN /\ trace' = Append(trace, "has_default_network")
            /\ failed' = failed \cup {"unwrap"}
            /\ Abort("resolve_network")
            /\ UNCHANGED <<storage, netCalls>>
       ELSE IF NetworkFallbackPresent
       THEN \E ok \in BOOLEAN :
            /\ trace' = trace \o <<"has_default_network", "store_default_network">>
            /\ netCalls' = Append(netCalls,
                   [ssid |-> NetworkFallback.ssid,
                    password |-> NetworkFallback.password, ok |-> ok])
            /\ failed' = IF ok THEN failed ELSE failed \cup {"store_default_network"}
            /\ IF ok
               THEN /\ storage' = store_default_network(storage,
                                      NetworkFallback.ssid, NetworkFallback.password)
                    /\ Continue("resolve_network")
               ELSE /\ storage' = storage
                    /\ Abort("resolve_network")
       ELSE /\ trace' = Append(trace, "has_default_network")
            /\ Abort("resolve_network")
            /\ UNCHANGED <<storage, netCalls, failed>>
    /\ UNCHANGED <<buildVars, robotCalls, newCalls, bootStorage, earlier, bootVars,
                   taskVars>>

\* Mutant: the network name alone is enough, a missing password is stored
\* as "".
ResolveNetwork_PartialFallback ==
    /\ pc = "resolve_network"
    /\ IF has_default_network(storage)
       THEN /\ trace' = Append(trace, "has_default_network")
            /\ Continue("resolve_network")
            /\ UNCHANGED <<storage, netCalls, failed>>
       ELSE IF is_some(SSID)
       THEN \E ok \in BOOLEAN :
            /\ trace' = trace \o <<"has_default_network", "store_default_network">>
            /\ netCalls' = Append(netCalls,
                   [ssid |-> SSID.val,
                    password |-> PASS.val, ok |-> ok])
            /\ failed' = IF ok THEN failed ELSE failed \cup {"store_default_network"}
            /\ IF ok
               THEN /\ storage' = store_default_network(storage,
                                      SSID.val, PASS.val)
                    /\ Continue("resolve_network")
               ELSE /\ storage' = storage
                    /\ Abort("resolve_network")
       ELSE /\ trace' = Append(trace, "has_default_network")
            /\ Continue("resolve_network")
            /\ UNCHANGED <<storage, netCalls, failed>>
    /\ UNCHANGED <<buildVars, robotCalls, newCalls, bootStorage, earlier, bootVars,
                   taskVars>>

\* Mutant: the result of store_default_network is dropped.
ResolveNetwork_IgnoresWriteError ==
    /\ pc = "resolve_network"
    /\ IF has_default_network(storage)
       THEN /\ trace' = Append(trace, "has_default_network")
            /\ Continue("resolve_network")
            /\ UNCHANGED <<storage, netCalls, failed>>
       ELSE IF NetworkFallbackPresent /\ NetworkFallback.panic
       THEN /\ trace' = Append(trace, "has_default_network")
            /\ failed' = failed \cup {"unwrap"}
            /\ Abort("resolve_network")
            /\ UNCHANGED <<storage, netCalls>>
       ELSE IF NetworkFallbackPresent
       THEN \E ok \in BOOLEAN :
            /\ trace' = trace \o <<"has_default_network", "store_default_network">>
            /\ netCalls' = Append(netCalls,
                   [ssid |-> NetworkFallback.ssid,
                    password |-> NetworkFallback.password, ok |-> ok])
            /\ failed' = IF ok THEN failed ELSE failed \cup {"store_default_network"}
            /\ IF ok
               THEN /\ storage' = store_default_network(storage,
                                      NetworkFallback.ssid, NetworkFallback.password)
                    /\ Continue("resolve_network")
               ELSE /\ storage' = storage
                    /\ Continue("resolve_network")
       ELSE /\ trace' = Append(trace, "has_default_network")
            /\ Continue("resolve_network")
            /\ UNCHANGED <<storage, netCalls, failed>>
    /\ UNCHANGED <<buildVars, robotCalls, newCalls, bootStorage, earlier, bootVars,
                   taskVars>>

\* main.rs:63-75  the network category of the resolver
ResolveNetwork ==
    /\ pc = "resolve_network"
    /\ IF has_default_network(storage)
       THEN /\ trace' = Append(trace, "has_default_network")
            /\ Continue("resolve_network")
            /\ UNCHANGED <<storage, netCalls, failed>>
       ELSE IF NetworkFallbackPresent /\ NetworkFallback.panic
       THEN /\ trace' = Append(trace, "has_default_network")
            /\ failed' = failed \cup {"unwrap"}
            /\ Abort("resolve_network")
            /\ UNCHANGED <<storage, netCalls>>
       ELSE IF NetworkFallbackPresent
       THEN \E ok \in BOOLEAN :
            /\ trace' = trace \o <<"has_default_network", "store_default_network">>
            /\ netCalls' = Append(netCalls,
                   [ssid |-> NetworkFallback.ssid,
                    password |-> NetworkFallback.password, ok |-> ok])
            /\ failed' = IF ok THEN failed ELSE failed \cup {"store_default_network"}
            /\ IF ok
               THEN /\ storage' = store_default_network(storage,
                                      NetworkFallback.ssid, NetworkFallback.password)
                    /\ Continue("resolve_network")
               ELSE /\ storage' = storage
                    /\ Abort("resolve_network")
       ELSE /\ trace' = Append(trace, "has_default_network")
            /\ Continue("resolve_network")
            /\ UNCHANGED <<storage, netCalls, failed>>
    /\ UNCHANGED <<buildVars, robotCalls, newCalls, bootStorage, earlier, bootVars,
                   taskVars>>

\* Mutant: a fallback whose address does not parse is skipped silently.
ResolveRobot_SkipsBadAddress ==
    /\ pc = "resolve_robot"
    /\ IF has_robot_credentials(storage)
       THEN /\ trace' = Append(trace, "has_robot_credentials")
            /\ Continue("resolve_robot")
            /\ UNCHANGED <<storage, robotCalls, newCalls, failed>>
       ELSE IF RobotFallbackPresent /\ RobotFallback.panic
       THEN /\ trace' = Append(trace, "has_robot_credentials")
            /\ failed' = failed \cup {"unwrap"}
            /\ Abort("resolve_robot")
            /\ UNCHANGED <<storage, robotCalls, newCalls>>
       ELSE IF RobotFallbackPresent
       THEN LET made == RobotCredentials_new(RobotFallback.id, RobotFallback.secret,
                                             RobotFallback.address)
            IN /\ newCalls' = Append(newCalls,
                      [id |-> RobotFallback.id,
                       secret |-> RobotFallback.secret,
                       address |-> RobotFallback.address, ok |-> made.ok])
               /\ IF made.ok
                  THEN \E ok \in BOOLEAN :
                       /\ trace' = trace \o <<"has_robot_credentials",
                                              "RobotCredentials::new",
                                              "store_robot_credentials">>
                       /\ robotCalls' = Append(robotCalls,
                              [cred |-> made.cred, ok |-> ok])
                       /\ failed' = IF ok THEN failed
                                    ELSE failed \cup {"store_robot_credentials"}
                       /\ IF ok
                          THEN /\ storage' = store_robot_credentials(storage, made.cred)
                               /\ Continue("resolve_robot")
                          ELSE /\ storage' = storage
                               /\ Abort("resolve_robot")
                  ELSE /\ trace' = trace \o <<"has_robot_credentials",
                                              "RobotCredentials::new">>
                       /\ failed' = failed \cup {"RobotCredentials::new"}
                       /\ Continue("resolve_robot")
                       /\ UNCHANGED <<storage, robotCalls>>
       ELSE /\ trace' = Append(trace, "has_robot_credentials")
            /\ Continue("resolve_robot")
            /\ UNCHANGED <<storage, robotCalls, newCalls, failed>>
    /\ UNCHANGED <<buildVars, netCalls, bootStorage, earlier, bootVars, taskVars>>

\* main.rs:77-96  the device category of the resolver
ResolveRobot ==
    /\ pc = "resolve_robot"
    /\ IF has_robot_credentials(storage)
       THEN /\ trace' = Append(trace, "has_robot_credentials")
            /\ Continue("resolve_robot")
            /\ UNCHANGED <<storage, robotCalls, newCalls, failed>>
       ELSE IF RobotFallbackPresent /\ RobotFallback.panic
       THEN /\ trace' = Append(trace, "has_robot_credentials")
            /\ failed' = failed \cup {"unwrap"}
            /\ Abort("resolve_robot")
            /\ UNCHANGED <<storage, robotCalls, newCalls>>
       ELSE IF RobotFallbackPresent
       THEN LET made == RobotCredentials_new(RobotFallback.id, RobotFallback.secret,
                                             RobotFallback.address)
            IN /\ newCalls' = Append(newCalls,
                      [id |-> RobotFallback.id,
                       secret |-> RobotFallback.secret,
                       address |-> RobotFallback.address, ok |-> made.ok])
               /\ IF made.ok
                  THEN \E ok \in BOOLEAN :
                       /\ trace' = trace \o <<"has_robot_credentials",
                                              "RobotCredentials::new",
                                              "store_robot_credentials">>
                       /\ robotCalls' = Append(robotCalls,
                              [cred |-> made.cred, ok |-> ok])
                       /\ failed' = IF ok THEN failed
                                    ELSE failed \cup {"store_robot_credentials"}
                       /\ IF ok
                          THEN /\ storage' = store_robot_credentials(storage, made.cred)
                               /\ Continue("resolve_robot")
                          ELSE /\ storage' = storage
                               /\ Abort("resolve_robot")
                  ELSE /\ trace' = trace \o <<"has_robot_credentials",
                                              "RobotCredentials::new">>
                       /\ failed' = failed \cup {"RobotCredentials::new"}
                       /\ Abort("resolve_robot")
                       /\ UNCHANGED <<storage, robotCalls>>
       ELSE /\ trace' = Append(trace, "has_robot_credentials")
            /\ Continue("resolve_robot")
            /\ UNCHANGED <<storage, robotCalls, newCalls, failed>>
    /\ UNCHANGED <<buildVars, netCalls, bootStorage, earlier, bootVars, taskVars>>

\* main.rs:98-100  ProvisioningInfo::default() and its two setters
SetProvisioningInfo ==
    /\ pc = "provisioning_info"
    /\ info' = [manufacturer |-> "viam", model |-> "esp32"]
    /\ trace' = Append(trace, "provisioning_info")
    /\ Continue("provisioning_info")
    /\ UNCHANGED <<failed, buildVars, storeVars, bootStorage, earlier, registry, regResult,
                   webrtc_certs, dtls, webrtc_config, exec, builder, server,
                   taskVars>>

\* Mutant: the result of register_modules is unwrapped.
RegisterModules_Unwrapped ==
    /\ pc = "register_modules"
    /\ LET r == register_modules(modules, 1, {})
       IN /\ registry' = r.registry
          /\ regResult' = r.result
          /\ failed' = IF r.result = "Ok" THEN failed
                       ELSE failed \cup {"register_modules"}
          /\ IF r.result = "Ok" THEN Continue("register_modules")
             ELSE Abort("register_modules")
    /\ trace' = Append(trace, "register_modules")
    /\ UNCHANGED <<buildVars, storeVars, bootStorage, earlier, info, webrtc_certs,
                   dtls, webrtc_config, exec, builder, server, taskVars>>

\* main.rs:102-105  register_modules(&mut registry); an Err is only logged
RegisterModules ==
    /\ pc = "register_modules"
    /\ LET r == register_modules(modules, 1, {})
       IN /\ registry' = r.registry
          /\ regResult' = r.result
          /\ failed' = IF r.result = "Ok" THEN failed
                       ELSE failed \cup {"register_modules"}
    /\ trace' = Append(trace, "register_modules")
    /\ Continue("register_modules")
    /\ UNCHANGED <<buildVars, storeVars, bootStorage, earlier, info, webrtc_certs,
                   dtls, webrtc_config, exec, builder, server, taskVars>>

\* Mutant: the DTLS builder is given a certificate of its own.
GenerateCertificate_SecondIdentity ==
    /\ pc = "certificate"
    /\ trace' = Append(trace, "certificate_build")
    /\ \E ok \in BOOLEAN :
        /\ failed' = IF ok THEN failed ELSE failed \cup {"certificate"}
        /\ IF ok
           THEN /\ webrtc_certs' = 1
                /\ dtls' = 2
                /\ webrtc_config' = 1
                /\ Continue("certificate")
           ELSE /\ Abort("certificate")
                /\ UNCHANGED <<webrtc_certs, dtls, webrtc_config>>
    /\ UNCHANGED <<buildVars, storeVars, bootStorage, earlier, info, registry,
                   regResult, exec, builder, server, taskVars>>

\* main.rs:106-111  certificate generation (unwrap), then the Rc is cloned
\* into the DTLS builder and moved into the WebRtcConfiguration
GenerateCertificate ==
    /\ pc = "certificate"
    /\ trace' = Append(trace, "certificate_build")
    /\ \E ok \in BOOLEAN :
        /\ failed' = IF ok THEN failed ELSE failed \cup {"certificate"}
        /\ IF ok
           THEN /\ webrtc_certs' = 1
                /\ dtls' = 1
                /\ webrtc_config' = 1
                /\ Continue("certificate")
           ELSE /\ Abort("certificate")
                /\ UNCHANGED <<webrtc_certs, dtls, webrtc_config>>
    /\ UNCHANGED <<buildVars, storeVars, bootStorage, earlier, info, registry,
                   regResult, exec, builder, server, taskVars>>

\* Mutant: the registry is replaced by a fresh default one at the spawn.
SpawnSupervisor_FreshRegistry ==
    /\ pc = "spawn"
    /\ exec' = exec \cup {"supervisor"}
    /\ supPc' = "ready"
    /\ registry' = {}
    /\ trace' = Append(trace, "spawn")
    /\ Continue("spawn")
    /\ UNCHANGED <<failed, buildVars, storeVars, bootStorage, earlier, info,
                   regResult, webrtc_certs, dtls, webrtc_config, builder, server,
                   lastRan, report, sampled>>

\* main.rs:113-149  Executor::new(); exec.spawn(async { loop {..} }).detach()
SpawnSupervisor ==
    /\ pc = "spawn"
    /\ exec' = exec \cup {"supervisor"}
    /\ supPc' = "ready"
    /\ trace' = Append(trace, "spawn")
    /\ Continue("spawn")
    /\ UNCHANGED <<failed, buildVars, storeVars, bootStorage, earlier, info, registry,
                   regResult, webrtc_certs, dtls, webrtc_config, builder, server,
                   lastRan, report, sampled>>

\* main.rs:151-157  ViamServerBuilder::new(storage) and the with_* calls
MakeBuilder ==
    /\ pc = "builder"
    /\ builder' = [made |-> TRUE, storage |-> TRUE, info |-> info,
                   cert |-> webrtc_config, registry |-> registry, wifi |-> FALSE]
    /\ trace' = Append(trace, "builder")
    /\ Continue("builder")
    /\ UNCHANGED <<failed, buildVars, storeVars, bootStorage, earlier, info, registry,
                   regResult, webrtc_certs, dtls, webrtc_config, exec, server,
                   taskVars>>

\* Mutant: a failed network manager is skipped and the boot goes on.
MakeWifi_IgnoresError ==
    /\ pc = "wifi"
    /\ trace' = Append(trace, "wifi")
    /\ \E ok \in BOOLEAN :
        /\ failed' = IF ok THEN failed ELSE failed \cup {"wifi"}
        /\ builder' = IF ok THEN [builder EXCEPT !.wifi = TRUE] ELSE builder
        /\ Continue("wifi")
    /\ UNCHANGED <<buildVars, storeVars, bootStorage, earlier, info, registry,
                   regResult, webrtc_certs, dtls, webrtc_config, exec, server,
                   taskVars>>

\* main.rs:159  builder.with_wifi_manager(Box::new(Esp32WifiNetwork::new().unwrap()))
MakeWifi ==
    /\ pc = "wifi"
    /\ trace' = Append(trace, "wifi")
    /\ \E ok \in BOOLEAN :
        /\ failed' = IF ok THEN failed ELSE failed \cup {"wifi"}
        /\ IF ok
           THEN /\ builder' = [builder EXCEPT !.wifi = TRUE]
                /\ Continue("wifi")
           ELSE /\ Abort("wifi")
                /\ UNCHANGED builder
    /\ UNCHANGED <<buildVars, storeVars, bootStorage, earlier, info, registry,
                   regResult, webrtc_certs, dtls, webrtc_config, exec, server,
                   taskVars>>

\* main.rs:160  Esp32Mdns::new("".to_owned()).unwrap()
MakeMdns ==
    /\ pc = "mdns"
    /\ trace' = Append(trace, "mdns")
    /\ \E ok \in BOOLEAN :
        /\ failed' = IF ok THEN failed ELSE failed \cup {"mdns"}
        /\ IF ok THEN Continue("mdns") ELSE Abort("mdns")
    /\ UNCHANGED <<buildVars, storeVars, bootStorage, earlier, bootVars, taskVars>>

\* main.rs:162  builder.build(Esp32H2Connector::default(), exec, mdns)
Build ==
    /\ pc = "build"
    /\ server' = BuildServer(builder, exec)
    /\ trace' = Append(trace, "build")
    /\ Continue("build")
    /\ UNCHANGED <<failed, buildVars, storeVars, bootStorage, earlier, info, registry,
                   regResult, webrtc_certs, dtls, webrtc_config, exec, builder,
                   taskVars>>

\* main.rs:164  server.run_forever(): never returns
RunForever ==
    /\ pc = "run_forever"
    /\ trace' = Append(trace, "run_forever")
    /\ Continue("run_forever")
    /\ UNCHANGED <<failed, buildVars, storeVars, bootStorage, earlier, bootVars, taskVars>>

\* The server loop polls its own work on the executor.
ServerPoll ==
    /\ pc = "serving"
    /\ lastRan # "server"
    /\ lastRan' = "server"
    /\ UNCHANGED <<failed, buildVars, storeVars, bootStorage, earlier, pc, abortAt, trace,
                   bootVars, supPc, report, sampled>>

\* Mutant: the sampling step also rewrites the stored network record.
SupervisorSample_WritesStore ==
    /\ pc = "serving"
    /\ "supervisor" \in server.exec
    /\ supPc = "ready"
    /\ \E spi \in SpiramCounters, ram \in InternalCounters :
        /\ sampled' = [spiram |-> spi, internal |-> ram]
        /\ report' = [spiram |-> PercentOf[spi], internal |-> PercentOf[ram]]
    /\ storage' = store_default_network(storage, "supervisor", "supervisor")
    /\ supPc' = "sleeping"
    /\ lastRan' = "supervisor"
    /\ UNCHANGED <<failed, buildVars, netCalls, robotCalls, newCalls, bootStorage,
                   earlier, pc, abortAt, trace, bootVars>>

\* main.rs:116-146  one pass of the supervisor's loop body up to the await
SupervisorSample ==
    /\ pc = "serving"
    /\ "supervisor" \in server.exec
    /\ supPc = "ready"
    /\ \E spi \in SpiramCounters, ram \in InternalCounters :
        /\ sampled' = [spiram |-> spi, internal |-> ram]
        /\ report' = [spiram |-> PercentOf[spi], internal |-> PercentOf[ram]]
    /\ supPc' = "sleeping"
    /\ lastRan' = "supervisor"
    /\ UNCHANGED <<failed, buildVars, storeVars, bootStorage, earlier, pc, abortAt, trace,
                   bootVars>>

\* Mutant: the task returns after its first sleep instead of looping.
TimerElapsed_TaskEnds ==
    /\ pc = "serving"
    /\ supPc = "sleeping"
    /\ supPc' = "ended"
    /\ UNCHANGED <<failed, buildVars, storeVars, bootStorage, earlier, pc, abortAt,
                   trace, bootVars, lastRan, report, sampled>>

\* main.rs:146  Timer::after(Duration::from_secs(60)) elapses
TimerElapsed ==
    /\ pc = "serving"
    /\ supPc = "sleeping"
    /\ supPc' = "ready"
    /\ UNCHANGED <<failed, buildVars, storeVars, bootStorage, earlier, pc, abortAt, trace,
                   bootVars, lastRan, report, sampled>>

\* The process is restarted (after an abort, or by a power cycle while
\* serving): main() starts again with the store as it was left.
Reboot ==
    /\ pc \in {"aborted", "serving"}
    /\ earlier' = [net |-> CallsSoFar(earlier.net, netCalls),
                   robot |-> CallsSoFar(earlier.robot, robotCalls)]
    /\ netCalls' = <<>>
    /\ robotCalls' = <<>>
    /\ newCalls' = <<>>
    /\ bootStorage' = storage
    /\ pc' = "eventfd_register"
    /\ abortAt' = ""
    /\ trace' = <<>>
    /\ info' = NoInfo
    /\ registry' = {}
    /\ regResult' = ""
    /\ webrtc_certs' = 0
    /\ dtls' = 0
    /\ webrtc_config' = 0
    /\ exec' = {}
    /\ builder' = NoBuilder
    /\ server' = NoServer
    /\ supPc' = "unspawned"
    /\ lastRan' = ""
    /\ report' = NoReport
    /\ sampled' = NoSample
    /\ failed' = {}
    /\ UNCHANGED <<buildVars, storage>>

Next ==
    \/ EventfdRegister
    \/ NvsOpen
    \/ ResolveNetwork
    \/ ResolveRobot
    \/ SetProvisioningInfo
    \/ RegisterModules
    \/ GenerateCertificate
    \/ SpawnSupervisor
    \/ MakeBuilder
    \/ MakeWifi
    \/ MakeMdns
    \/ Build
    \/ RunForever
    \/ ServerPoll
    \/ SupervisorSample
    \/ TimerElapsed
    \/ Reboot

Spec == Init /\ [][Next]_vars

\* One run of the process, without restarts: the statements of main() run
\* one after the other until it aborts or blocks in run_forever; from then
\* on the executor polls the server's work and the supervisor task fairly
\* and the 60 s timer elapses.
MainStep ==
    \/ EventfdRegister
    \/ NvsOpen
    \/ ResolveNetwork
    \/ ResolveRobot
    \/ SetProvisioningInfo
    \/ RegisterModules
    \/ GenerateCertificate
    \/ SpawnSupervisor
    \/ MakeBuilder
    \/ MakeWifi
    \/ MakeMdns
    \/ Build
    \/ RunForever

LiveNext ==
    \/ MainStep
    \/ ServerPoll
    \/ SupervisorSample
    \/ TimerElapsed

LiveSpec ==
    /\ Init
    /\ [][LiveNext]_vars
    /\ WF_vars(MainStep)
    /\ WF_vars(ServerPoll)
    /\ WF_vars(SupervisorSample)
    /\ WF_vars(TimerElapsed)

TypeOK ==
    /\ earlier \in [net : {"none", "failed", "ok"}, robot : {"none", "failed", "ok"}]
    /\ pc \in {"eventfd_register", "nvs_open", "resolve_network", "resolve_robot",
               "provisioning_info", "register_modules", "certificate", "spawn",
               "builder", "wifi", "mdns", "build", "run_forever", "serving",
               "aborted"}
    /\ supPc \in {"unspawned", "ready", "sleeping"}
    /\ registry \subseteq 1..Len(modules)
    /\ Len(modules) = MaxModules

\* ---------------------------------------------------------------- claims
ResolverCalls == {"has_default_network", "store_default_network",
                  "has_robot_credentials", "RobotCredentials::new",
                  "store_robot_credentials"}
StoreWrites == {"store_default_network", "store_robot_credentials"}
AfterResolver == {"provisioning_info", "register_modules", "certificate", "spawn",
                  "builder", "wifi", "mdns", "build", "run_forever", "serving"}
Before(a, b, s) ==
    \A j \in 1..Len(s) : s[j] = b => \A i \in 1..Len(s) : s[i] = a => i < j

\* C1: for each credential category, when the store reports a record at
\* boot, the resolver makes no store-write (and constructs no credential)
\* for that category in that boot and the stored record stays as it was,
\* whatever the fallback values are.
C1_PopulatedStoreUntouched ==
    /\ bootStorage.network.present =>
        /\ storage.network = bootStorage.network
        /\ netCalls = <<>>
    /\ bootStorage.robot.present =>
        /\ storage.robot = bootStorage.robot
        /\ robotCalls = <<>>
        /\ newCalls = <<>>

\* A boot on a fully populated store, with complete fallbacks that differ
\* from the stored records, has run the resolver and reached the loop.
C1_Witness ==
    /\ pc = "serving"
    /\ bootStorage.network = StoredNetwork
    /\ bootStorage.robot = StoredRobot
    /\ SSID = Some("ssid") /\ PASS = Some("pass")
    /\ ROBOT_ID = Some("id") /\ ROBOT_SECRET = Some("secret")
    /\ ROBOT_APP_ADDRESS = Some("https://app.viam.com:443")

\* C2 (as stated): over any sequence of boots there is at most one
\* store-write call per category.
C2_AtMostOneWriteCall ==
    /\ Len(netCalls) + (IF earlier.net = "none" THEN 0 ELSE 1) <= 1
    /\ Len(robotCalls) + (IF earlier.robot = "none" THEN 0 ELSE 1) <= 1

\* C2 (amended): once the resolver has handled a category whose record was
\* absent at boot and whose fallback is fully present and well-formed, it has
\* made exactly one store-write call for it in that boot, carrying exactly
\* the fallback values; a write that succeeded leaves those values in the
\* store and is never followed by another write call for the category, so at
\* most one write per category succeeds over any sequence of boots.
C2_OneWriteOfFallback ==
    /\ (Occurs("has_default_network", trace) /\ ~bootStorage.network.present
            /\ SSID.some /\ PASS.some) =>
        /\ Len(netCalls) = 1
        /\ netCalls[1].ssid = SSID.val
        /\ netCalls[1].password = PASS.val
    /\ (Occurs("has_robot_credentials", trace) /\ ~bootStorage.robot.present
            /\ ROBOT_ID.some /\ ROBOT_SECRET.some /\ ROBOT_APP_ADDRESS.some
            /\ AddressParses(ROBOT_APP_ADDRESS.val)) =>
        /\ Len(robotCalls) = 1
        /\ robotCalls[1].cred = [id |-> ROBOT_ID.val, secret |-> ROBOT_SECRET.val,
                                 address |-> ROBOT_APP_ADDRESS.val]
    /\ \A i \in 1..Len(netCalls) :
        netCalls[i].ok =>
            /\ i = Len(netCalls)
            /\ earlier.net # "ok"
            /\ storage.network = [present |-> TRUE, ssid |-> SSID.val,
                                  password |-> PASS.val]
    /\ earlier.net = "ok" =>
        /\ netCalls = <<>>
        /\ storage.network = [present |-> TRUE, ssid |-> SSID.val,
                              password |-> PASS.val]
    /\ \A i \in 1..Len(robotCalls) :
        robotCalls[i].ok =>
            /\ i = Len(robotCalls)
            /\ earlier.robot # "ok"
            /\ storage.robot = [present |-> TRUE, id |-> ROBOT_ID.val,
                                secret |-> ROBOT_SECRET.val,
                                address |-> ROBOT_APP_ADDRESS.val]
    /\ earlier.robot = "ok" =>
        /\ robotCalls = <<>>
        /\ storage.robot = [present |-> TRUE, id |-> ROBOT_ID.val,
                            secret |-> ROBOT_SECRET.val,
                            address |-> ROBOT_APP_ADDRESS.val]

\* Both categories were written in an earlier boot and a later boot has run
\* the resolver again, without a write, and reached the loop.
C2_Witness ==
    /\ earlier = [net |-> "ok", robot |-> "ok"]
    /\ pc = "serving"
    /\ netCalls = <<>> /\ robotCalls = <<>>
    /\ storage.network = [present |-> TRUE, ssid |-> "ssid", password |-> "pass"]
    /\ storage.robot.id = "id"

\* C3: when any field of a category's fallback is missing, no store-write is
\* ever made for that category and, for the device category,
\* RobotCredentials::new is never called.
C3_PartialFallbackNeverUsed ==
    /\ (~SSID.some \/ ~PASS.some) => netCalls = <<>>
    /\ (~ROBOT_ID.some \/ ~ROBOT_SECRET.some \/ ~ROBOT_APP_ADDRESS.some) =>
        /\ robotCalls = <<>>
        /\ newCalls = <<>>

\* Empty store, an ssid without a password and an id and secret without an
\* address: the resolver has handled both categories.
C3_Witness ==
    /\ ~bootStorage.network.present /\ ~bootStorage.robot.present
    /\ SSID = Some("ssid") /\ PASS = None
    /\ ROBOT_ID = Some("id") /\ ROBOT_SECRET = Some("secret")
    /\ ROBOT_APP_ADDRESS = None
    /\ Occurs("has_robot_credentials", trace)
    /\ pc = "provisioning_info"

\* C4: a fallback with a field that is set to the empty string is never
\* used: no store-write carries an empty field and no credential is
\* constructed from an empty field.
C4_EmptyFieldNeverUsed ==
    /\ \A i \in 1..Len(netCalls) :
        netCalls[i].ssid # "" /\ netCalls[i].password # ""
    /\ \A i \in 1..Len(newCalls) :
        newCalls[i].ok =>
            newCalls[i].id # "" /\ newCalls[i].secret # "" /\ newCalls[i].address # ""
    /\ \A i \in 1..Len(robotCalls) :
        /\ robotCalls[i].cred.id # ""
        /\ robotCalls[i].cred.secret # ""
        /\ robotCalls[i].cred.address # ""

\* C5: when the device record is absent at boot, all three device fallback
\* fields are set and the address does not parse, store_robot_credentials is
\* not called, no statement after the resolver runs, the server loop is not
\* started, and once the resolver has handled the device category the
\* process has aborted there, after the construction was attempted.
C5_UnparsableAddressIsFatal ==
    (/\ ~bootStorage.robot.present
     /\ ROBOT_ID.some /\ ROBOT_SECRET.some /\ ROBOT_APP_ADDRESS.some
     /\ ~AddressParses(ROBOT_APP_ADDRESS.val)) =>
        /\ robotCalls = <<>>
        /\ ~storage.robot.present
        /\ pc \notin AfterResolver
        /\ \A i \in 1..Len(trace) :
            trace[i] \notin {"store_robot_credentials", "register_modules",
                             "certificate_build", "spawn", "build", "run_forever"}
        /\ Occurs("has_robot_credentials", trace) =>
            /\ pc = "aborted"
            /\ abortAt = "resolve_robot"
            /\ trace[Len(trace)] = "RobotCredentials::new"

\* The construction was attempted on an unparsable address and the process
\* has aborted in the device category.
C5_Witness ==
    /\ pc = "aborted"
    /\ abortAt = "resolve_robot"
    /\ ROBOT_APP_ADDRESS = Some("not a uri")
    /\ Len(newCalls) > 0
    /\ ~newCalls[Len(newCalls)].ok

\* C6: after register_modules has returned, every module whose own hook
\* succeeds is in the registry, wherever a failing module stands in the list.
C6_EverySucceedingModuleRegistered ==
    regResult # "" =>
        \A i \in 1..Len(modules) : modules[i] => i \in registry

\* C7: a registration failure never aborts the process: main() never aborts
\* at register_modules, it goes on to certificate generation, and the
\* registry (later handed to the builder and the server) holds exactly the
\* modules registered before the failure.
C7_RegistrationFailureNotFatal ==
    /\ abortAt # "register_modules"
    /\ regResult = "Err" =>
        /\ pc # "register_modules"
        /\ registry = {i \in 1..Len(modules) : \A j \in 1..i : modules[j]}
        /\ builder.made => builder.registry = registry
        /\ server.built => server.registry = registry

\* A boot whose second module failed to register is in the server loop with
\* the first module registered, and the supervisor has run.
C7_Witness ==
    /\ pc = "serving"
    /\ regResult = "Err"
    /\ Len(modules) >= 2 /\ modules[1] /\ ~modules[2]
    /\ server.registry = {1}
    /\ supPc = "sleeping"

\* C8: every call of the resolver comes before certificate generation and
\* before server assembly; when the certificate is generated both categories
\* have been resolved; no store-write follows certificate generation.
C8_ResolutionPrecedesIdentity ==
    /\ \A r \in ResolverCalls, a \in {"certificate_build", "builder", "build"} :
        Before(r, a, trace)
    /\ \A a \in {"certificate_build", "builder", "build"} :
        Occurs(a, trace) =>
            /\ Occurs("has_default_network", trace)
            /\ Occurs("has_robot_credentials", trace)
    /\ webrtc_certs # 0 =>
        /\ storage.network.present =
               (bootStorage.network.present \/ Occurs("store_default_network", trace))
        /\ ~Occurs("store_default_network", trace) =>
               storage.network = bootStorage.network
        /\ ~Occurs("store_robot_credentials", trace) =>
               storage.robot = bootStorage.robot

\* The resolver wrote both categories, then the certificate was generated
\* and the server was built.
C8_Witness ==
    /\ Occurs("store_default_network", trace)
    /\ Occurs("store_robot_credentials", trace)
    /\ Occurs("certificate_build", trace)
    /\ webrtc_certs # 0
    /\ server.built

\* C9 (as stated): the supervisor task is on the executor only after the
\* server has been built.
C9_SpawnOnlyAfterBuild ==
    "supervisor" \in exec => server.built

\* C9 (amended): the supervisor task is spawned on the executor after
\* credential resolution, registry initialization and identity assembly have
\* completed, and before the server builder is created and the server built.
C9_SpawnAfterIdentityBeforeAssembly ==
    /\ "supervisor" \in exec =>
        /\ Occurs("has_default_network", trace)
        /\ Occurs("has_robot_credentials", trace)
        /\ regResult # ""
        /\ webrtc_config # 0
    /\ \A a \in ResolverCalls \cup {"register_modules", "certificate_build"} :
        Before(a, "spawn", trace)
    /\ \A a \in {"builder", "wifi", "mdns", "build", "run_forever"} :
        Before("spawn", a, trace)
    /\ builder.made => "supervisor" \in exec
    /\ server.built => "supervisor" \in exec

\* The supervisor is on the executor while the builder does not exist yet.
C9_Witness ==
    /\ pc = "builder"
    /\ "supervisor" \in exec
    /\ ~builder.made
    /\ ~server.built

\* C10: whenever run_forever has been entered, the supervisor task was
\* spawned before it, on the executor that the server was built with.
C10_SupervisorSpawnedBeforeLoop ==
    Occurs("run_forever", trace) =>
        /\ Occurs("spawn", trace)
        /\ Before("spawn", "run_forever", trace)
        /\ Before("spawn", "build", trace)
        /\ supPc # "unspawned"
        /\ "supervisor" \in server.exec
        /\ server.exec = exec

\* The server loop is running and has polled the supervisor task.
C10_Witness ==
    /\ pc = "serving"
    /\ "supervisor" \in server.exec
    /\ lastRan = "supervisor"
    /\ report # NoReport
\* C11: a step of the supervisor leaves the credential store, the registry
\* and the server untouched and makes no store call; the store changes only
\* in a resolver step of main(), while the supervisor is not yet spawned.
C11_SupervisorReadsOnly ==
    [][/\ (supPc = "ready" /\ supPc' = "sleeping") =>
            /\ storage' = storage
            /\ registry' = registry
            /\ server' = server
            /\ netCalls' = netCalls
            /\ robotCalls' = robotCalls
            /\ newCalls' = newCalls
       /\ (storage' # storage) =>
            /\ pc \in {"resolve_network", "resolve_robot"}
            /\ supPc = "unspawned"
            /\ exec = {}]_vars

\* The resolver wrote both categories in this boot, modules are registered
\* and the supervisor has sampled while the server loop runs.
C11_Witness ==
    /\ pc = "serving"
    /\ supPc = "sleeping"
    /\ lastRan = "supervisor"
    /\ Occurs("store_default_network", trace)
    /\ Occurs("store_robot_credentials", trace)
    /\ registry # {}
\* C12: once spawned the supervisor never terminates; whenever the server
\* loop runs, the supervisor samples and goes to sleep, wakes up again after
\* the sleep, and the server's own work is polled again as well.
C12_SupervisorRunsForever ==
    /\ [][supPc # "unspawned" => supPc' \in {"ready", "sleeping"}]_vars
    /\ [][(supPc = "ready" /\ supPc' # supPc) => supPc' = "sleeping"]_vars
    /\ (pc = "serving") ~> (supPc = "sleeping" /\ lastRan = "supervisor")
    /\ (pc = "serving" /\ supPc = "sleeping") ~> (supPc = "ready")
    /\ (pc = "serving") ~> (lastRan = "server")

\* The supervisor has sampled, slept and woken up again, and the server was
\* polled after the sample.
C12_Witness ==
    /\ pc = "serving"
    /\ supPc = "ready"
    /\ report # NoReport
    /\ lastRan = "server"
\* The call main() records in the trace for a fallible boot step.
CallOf(step) == IF step = "certificate" THEN "certificate_build" ELSE step
Count(e, s) == Cardinality({i \in 1..Len(s) : s[i] = e})

\* C13: when storage opening, certificate generation, network-manager
\* construction or mDNS construction returns an error, the process has
\* aborted at that step: the failed call is the last one made and was made
\* once (no retry), the server is not built and the server loop not started.
C13_FailedStepIsFatal ==
    \A step \in {"nvs_open", "certificate", "wifi", "mdns"} :
        step \in failed =>
            /\ pc = "aborted"
            /\ abortAt = step
            /\ trace[Len(trace)] = CallOf(step)
            /\ Count(CallOf(step), trace) = 1
            /\ ~server.built
            /\ ~Occurs("build", trace)
            /\ ~Occurs("run_forever", trace)
            /\ lastRan = ""

\* The network manager could not be constructed after the builder was made.
C13_Witness ==
    /\ "wifi" \in failed
    /\ pc = "aborted"
    /\ builder.made
    /\ supPc = "ready"
\* C14: a category with no record at boot and no complete fallback is not
\* an error: no write and no construction is made for it, the category stays
\* absent from the store, main() does not abort in that category, and as
\* long as no other step has failed the process has not aborted at all.
C14_AbsenceIsNotAnError ==
    LET netAbsent == ~bootStorage.network.present /\ ~(SSID.some /\ PASS.some)
        robotAbsent == /\ ~bootStorage.robot.present
                       /\ ~(ROBOT_ID.some /\ ROBOT_SECRET.some
                            /\ ROBOT_APP_ADDRESS.some)
    IN /\ netAbsent =>
            /\ netCalls = <<>>
            /\ ~storage.network.present
            /\ abortAt # "resolve_network"
       /\ robotAbsent =>
            /\ robotCalls = <<>>
            /\ newCalls = <<>>
            /\ ~storage.robot.present
            /\ abortAt # "resolve_robot"
       /\ ((netAbsent \/ robotAbsent) /\ failed \subseteq {"register_modules"}) =>
            pc # "aborted"

\* The server loop runs and the supervisor has sampled while both categories
\* are absent from the store and neither has a complete fallback.
C14_Witness ==
    /\ pc = "serving"
    /\ supPc = "sleeping"
    /\ ~storage.network.present /\ ~storage.robot.present
    /\ SSID = Some("ssid") /\ PASS = None
    /\ ROBOT_ID = None /\ ROBOT_SECRET = None /\ ROBOT_APP_ADDRESS = None
\* Empty storage, a full and valid fallback for both categories and module
\* hooks that all succeed.
EndToEndStart ==
    /\ ~bootStorage.network.present /\ ~bootStorage.robot.present
    /\ SSID.some /\ PASS.some
    /\ ROBOT_ID.some /\ ROBOT_SECRET.some /\ ROBOT_APP_ADDRESS.some
    /\ AddressParses(ROBOT_APP_ADDRESS.val)
    /\ \A i \in 1..Len(modules) : modules[i]

\* Both categories stored, all modules registered, the server built and
\* its loop running.
EndToEndDone ==
    /\ pc = "serving"
    /\ storage.network = [present |-> TRUE, ssid |-> SSID.val, password |-> PASS.val]
    /\ storage.robot = [present |-> TRUE, id |-> ROBOT_ID.val,
                        secret |-> ROBOT_SECRET.val,
                        address |-> ROBOT_APP_ADDRESS.val]
    /\ regResult = "Ok"
    /\ registry = 1..Len(modules)
    /\ server.built
    /\ server.registry = registry
    /\ server.cert = webrtc_certs /\ webrtc_certs # 0
    /\ builder.wifi

\* C15 (as stated): from the end-to-end start, when the storage opens and
\* certificate generation and network/mDNS construction succeed, the boot
\* eventually stores both categories, registers all modules, builds the
\* server and runs its loop for ever.
C15_EndToEndAsStated ==
    (EndToEndStart
        /\ [](failed \cap {"eventfd_register", "nvs_open", "certificate",
                            "wifi", "mdns"} = {}))
        => <>[]EndToEndDone

\* C15 (amended): from the end-to-end start, when no fallible boot step
\* returns an error (eventfd registration, storage opening and the two
\* store-writes included), the boot eventually stores both categories,
\* registers all modules, builds the server and runs its loop for ever.
C15_EndToEnd ==
    (EndToEndStart /\ [](failed = {})) => <>[]EndToEndDone

\* The end-to-end boot is in the server loop and the supervisor has sampled.
C15_Witness ==
    /\ EndToEndStart
    /\ EndToEndDone
    /\ failed = {}
    /\ Len(modules) > 0
    /\ supPc = "sleeping"
\* C16: the reported free fraction of a pool is free/total*100 to two
\* decimals (25.00 for total 1000, free 250; 3.12 for total 32, free 1, the
\* tie 3.125 going to the even digit), always less than one hundredth away
\* from the exact percentage; with total 0 and free 0 the division yields NaN
\* instead of failing, and in either case the sampling step has completed and
\* the task is at its sleep (or past it).
C16_FreeFractionReport ==
    report # NoReport =>
        /\ \A pool \in {"spiram", "internal"} :
            LET total == sampled[pool][1]
                free == sampled[pool][2]
                shown == report[pool]
            IN /\ (total = 1000 /\ free = 250) =>
                    shown = [kind |-> "num", hundredths |-> 2500]
               /\ (total = 32 /\ free = 1) =>
                    shown = [kind |-> "num", hundredths |-> 312]
               /\ (total = 0 /\ free = 0) => shown.kind = "NaN"
               /\ total > 0 =>
                    /\ shown.kind = "num"
                    /\ shown.hundredths * total - free * 10000 < total
                    /\ free * 10000 - shown.hundredths * total < total
        /\ pc = "serving"
        /\ abortAt = ""
        /\ supPc \in {"sleeping", "ready"}

\* A sample read (0, 0) for SPIRAM and (1000, 250) for internal RAM and the
\* task is sleeping.
C16_Witness ==
    /\ supPc = "sleeping"
    /\ sampled = [spiram |-> <<0, 0>>, internal |-> <<1000, 250>>]
    /\ report.spiram.kind = "NaN"
    /\ report.internal = [kind |-> "num", hundredths |-> 2500]
\* A step of the running process, as opposed to its restart.
SameBoot == ~(pc \in {"aborted", "serving"} /\ pc' = "eventfd_register")

\* C17: a boot generates at most one transport identity; the DTLS backend,
\* the WebRTC configuration, the builder and the server all reference that
\* one value; within the boot it never changes once created; and the step
\* that generates it and every later step of the boot leave the credential
\* store alone and make no store-write call.
C17_OneSharedIdentity ==
    [][/\ Count("certificate_build", trace') <= 1
       /\ webrtc_certs' # 0 =>
            /\ Count("certificate_build", trace') = 1
            /\ dtls' = webrtc_certs'
            /\ webrtc_config' = webrtc_certs'
       /\ builder'.made => builder'.cert = webrtc_certs' /\ webrtc_certs' # 0
       /\ server'.built => server'.cert = webrtc_certs' /\ webrtc_certs' # 0
       /\ (webrtc_certs # 0 /\ SameBoot) =>
            /\ webrtc_certs' = webrtc_certs
            /\ dtls' = dtls
            /\ webrtc_config' = webrtc_config
       /\ ((webrtc_certs # 0 \/ pc = "certificate") /\ SameBoot) =>
            /\ storage' = storage
            /\ netCalls' = netCalls
            /\ robotCalls' = robotCalls]_vars

\* A later boot runs its loop on its own identity, shared by the DTLS
\* backend and the server, after an earlier boot stored both categories.
C17_Witness ==
    /\ earlier = [net |-> "ok", robot |-> "ok"]
    /\ pc = "serving"
    /\ webrtc_certs # 0
    /\ dtls = webrtc_certs
    /\ server.cert = webrtc_certs
    /\ supPc = "sleeping"
\* C18: within a boot the registry changes only in the register_modules
\* step, which runs once on the empty registry; after it has returned no
\* step of main(), of the server loop or of the supervisor changes the
\* registry, and the builder and the server are handed exactly that registry.
C18_RegistryWrittenOnce ==
    [][/\ (registry' # registry /\ SameBoot) =>
            /\ pc = "register_modules"
            /\ registry = {}
            /\ regResult = ""
       /\ (regResult # "" /\ SameBoot) =>
            /\ registry' = registry
            /\ regResult' = regResult
       /\ Count("register_modules", trace') <= 1
       /\ builder'.made => builder'.registry = registry'
       /\ server'.built => server'.registry = registry']_vars

\* Every module is registered, the server holds that registry and both the
\* server loop and the supervisor have run.
C18_Witness ==
    /\ pc = "serving"
    /\ Len(modules) > 0
    /\ registry = 1..Len(modules)
    /\ server.registry = registry
    /\ supPc = "ready"
    /\ report # NoReport
    /\ lastRan = "server"
\* C19: when store_default_network or store_robot_credentials has returned
\* an error in this boot, the process has aborted in that category with the
\* failed write as its last call: no later statement has run, the
\* supervisor is not spawned, the server is not built and its loop not
\* started; past the resolver every write made in this boot succeeded.
C19_FailedWriteIsFatal ==
    /\ (\E i \in 1..Len(netCalls) : ~netCalls[i].ok) =>
        /\ pc = "aborted"
        /\ abortAt = "resolve_network"
        /\ trace[Len(trace)] = "store_default_network"
        /\ ~Occurs("has_robot_credentials", trace)
        /\ supPc = "unspawned"
        /\ ~server.built
    /\ (\E i \in 1..Len(robotCalls) : ~robotCalls[i].ok) =>
        /\ pc = "aborted"
        /\ abortAt = "resolve_robot"
        /\ trace[Len(trace)] = "store_robot_credentials"
        /\ supPc = "unspawned"
        /\ ~server.built
    /\ pc \in AfterResolver =>
        /\ \A i \in 1..Len(netCalls) :
            /\ netCalls[i].ok
            /\ storage.network.present
        /\ \A i \in 1..Len(robotCalls) :
            /\ robotCalls[i].ok
            /\ storage.robot.present

\* The network write succeeded, the device write returned an error and the
\* process has aborted there.
C19_Witness ==
    /\ pc = "aborted"
    /\ abortAt = "resolve_robot"
    /\ Occurs("store_default_network", trace)
    /\ storage.network.present
    /\ Len(robotCalls) > 0
    /\ ~robotCalls[Len(robotCalls)].ok
    /\ ~storage.robot.present
\* A complete network fallback and a complete device fallback whose address
\* does not parse, with no device record in the store.
BadDeviceFallback ==
    /\ SSID.some /\ PASS.some
    /\ ROBOT_ID.some /\ ROBOT_SECRET.some /\ ROBOT_APP_ADDRESS.some
    /\ ~AddressParses(ROBOT_APP_ADDRESS.val)
    /\ ~bootStorage.robot.present

\* C20 (as stated): with that fallback, a boot that calls the network write
\* has persisted the network credentials, and a boot that follows one in
\* which the network write was called makes no network write.
C20_NetworkPersistedThenNoOp ==
    BadDeviceFallback =>
        /\ Occurs("store_default_network", trace) =>
            storage.network = [present |-> TRUE, ssid |-> SSID.val,
                               password |-> PASS.val]
        /\ earlier.net # "none" => netCalls = <<>>

\* C20 (amended): the network category is resolved entirely before the
\* device category.  With that fallback every boot that reaches the device
\* category aborts there, so no later statement runs and the server loop is
\* never started; the abort leaves a network write of the same boot in the
\* store; and after a boot whose network write succeeded the network
\* category of every later boot makes no write and leaves the record alone.
C20_NetworkKeptDeviceAborts ==
    /\ Before("has_default_network", "has_robot_credentials", trace)
    /\ Before("store_default_network", "has_robot_credentials", trace)
    /\ Occurs("has_robot_credentials", trace) => Occurs("has_default_network", trace)
    /\ BadDeviceFallback =>
        /\ pc \notin AfterResolver
        /\ ~Occurs("run_forever", trace)
        /\ ~storage.robot.present
        /\ Occurs("has_robot_credentials", trace) =>
            /\ pc = "aborted"
            /\ abortAt = "resolve_robot"
            /\ storage.network.present
            /\ \A i \in 1..Len(netCalls) :
                /\ netCalls[i].ok
                /\ storage.network = [present |-> TRUE, ssid |-> SSID.val,
                                      password |-> PASS.val]
        /\ earlier.net = "ok" =>
            /\ netCalls = <<>>
            /\ storage.network = bootStorage.network
            /\ storage.network.present

\* An earlier boot wrote the network credentials and aborted in the device
\* category; a later boot found them stored and has aborted there again.
C20_Witness ==
    /\ BadDeviceFallback
    /\ earlier.net = "ok"
    /\ pc = "aborted"
    /\ abortAt = "resolve_robot"
    /\ netCalls = <<>>
    /\ storage.network = [present |-> TRUE, ssid |-> SSID.val, password |-> PASS.val]
    /\ newCalls # <<>>
====
